---- MODULE Spec2Model ----
(***************************************************************************)
(* Model of filigrane-ai (src/src/index.ts, interactive variant, lines     *)
(* 1-247): a sequential batch driver that, for every JPEG of input/, runs  *)
(* a review loop of edit call, JPEG re-encode, write, EXIF copy and menu.  *)
(* Text is modelled as sequences of one-character strings, byte buffers as *)
(* sequences of byte values, and every await of the program is one step.   *)
(***************************************************************************)
EXTENDS Integers, Sequences, FiniteSets, TLC

(***************************************************************************)
(* Bounds of the model                                                     *)
(***************************************************************************)
\* most edit calls the operator is allowed to cause in one Job
MaxCalls == 3

\* length of the buffers enumerated for detectMimeTypeFromBuffer
MaxBufLen == 3

\* length of the directory listings enumerated for listJpegs
MaxEntries == 3

(***************************************************************************)
(* Program constants                                                       *)
(***************************************************************************)
PROMPT_TEXT ==
  << "P","e","u","x"," ","t","u"," ","e","n","l","e","v","e","r"," ",
     "l","e"," ","f","i","l","i","g","r","a","n","e"," ","s","u","r"," ",
     "c","e","t","t","e"," ","i","m","a","g","e"," ","s","t","p" >>

JPEG_QUALITY == 95

MIME_JPEG == "image/jpeg"
MIME_PNG == "image/png"
MIME_OCTET == "application/octet-stream"

(***************************************************************************)
(* Text helpers                                                            *)
(***************************************************************************)
\* String.prototype.toLowerCase on the letters file names use
LowerChar(c) ==
  CASE c = "J" -> "j"
    [] c = "P" -> "p"
    [] c = "E" -> "e"
    [] c = "G" -> "g"
    [] c = "N" -> "n"
    [] OTHER -> c

ToLowerCase(s) == [i \in 1..Len(s) |-> LowerChar(s[i])]

\* index of the last "." of s, 0 when there is none
LastDot(s) ==
  LET dots == {i \in 1..Len(s) : s[i] = "."}
  IN IF dots = {} THEN 0 ELSE CHOOSE i \in dots : \A j \in dots : j <= i

\* path.extname on a directory entry's name (no separators): the text from
\* the last dot, empty when there is no dot, when the only dot leads the
\* name, or when the name is ".."
ExtName(s) ==
  IF LastDot(s) <= 1 \/ s = <<".", ".">>
  THEN <<>>
  ELSE SubSeq(s, LastDot(s), Len(s))

IsSpace(c) == c \in {" ", "\t", "\n"}

RECURSIVE TrimStart(_)
TrimStart(s) ==
  IF s # <<>> /\ IsSpace(Head(s)) THEN TrimStart(Tail(s)) ELSE s

RECURSIVE TrimEnd(_)
TrimEnd(s) ==
  IF s # <<>> /\ IsSpace(s[Len(s)])
  THEN TrimEnd(SubSeq(s, 1, Len(s) - 1))
  ELSE s

\* String.prototype.trim
Trim(s) == TrimEnd(TrimStart(s))

(***************************************************************************)
(* Pure functions of the program                                           *)
(***************************************************************************)
\* variant: the extension is compared as written
isJpegFilename_CaseSensitive(filename) ==
  LET ext == ExtName(filename)
  IN ext = <<".", "j", "p", "g">> \/ ext = <<".", "j", "p", "e", "g">>

isJpegFilename(filename) ==
  LET ext == ToLowerCase(ExtName(filename))
  IN ext = <<".", "j", "p", "g">> \/ ext = <<".", "j", "p", "e", "g">>

chooseMimeTypeFromFilename(filename) ==
  LET ext == ToLowerCase(ExtName(filename))
  IN IF ext = <<".", "j", "p", "g">> \/ ext = <<".", "j", "p", "e", "g">>
     THEN MIME_JPEG
     ELSE MIME_OCTET

\* variant: the bytes present are compared, without the length tests
detectMimeTypeFromBuffer_NoLength(buf) ==
  LET Match(sig) == \A i \in 1..Len(sig) : i <= Len(buf) => buf[i] = sig[i]
  IN IF Match(<<137, 80, 78, 71, 13, 10, 26, 10>>)
     THEN MIME_PNG
     ELSE IF Match(<<255, 216, 255>>)
          THEN MIME_JPEG
          ELSE MIME_OCTET

detectMimeTypeFromBuffer(buf) ==
  IF /\ Len(buf) >= 8
     /\ buf[1] = 137 /\ buf[2] = 80 /\ buf[3] = 78 /\ buf[4] = 71
     /\ buf[5] = 13 /\ buf[6] = 10 /\ buf[7] = 26 /\ buf[8] = 10
  THEN MIME_PNG
  ELSE IF Len(buf) >= 3 /\ buf[1] = 255 /\ buf[2] = 216 /\ buf[3] = 255
       THEN MIME_JPEG
       ELSE MIME_OCTET

\* sharp(buf).jpeg({quality: 95, mozjpeg: true}).toBuffer(): a JPEG stream
\* encoding the picture held in buf
SharpJpeg(buf) ==
  [format |-> "jpeg", quality |-> JPEG_QUALITY, mozjpeg |-> TRUE, picture |-> buf]

\* the value promptComment hands back for the line the operator typed
promptComment(typedLine) == Trim(typedLine)

\* variant: the comment is appended to the base prompt, not to the current one
AppendComment_ToBase(prompt, comment) == PROMPT_TEXT \o <<"\n">> \o comment

\* `${currentPrompt}\n${comment}`
AppendComment(prompt, comment) == prompt \o <<"\n">> \o comment

(***************************************************************************)
(* The environment: directory listings, file contents, operator input      *)
(***************************************************************************)
NAME_A == <<"a", ".", "J", "P", "G">>
NAME_B == <<"b", ".", "j", "p", "e", "g">>
NAME_C == <<"c", ".", "p", "n", "g">>
NAME_D == <<"d", ".", "j", "p", "g">>
NAME_H == <<".", "j", "p", "g">>

Names == {NAME_A, NAME_B, NAME_C, NAME_D, NAME_H}

PngImage == <<137, 80, 78, 71, 13, 10, 26, 10>>
JpegImage == <<255, 216, 255>>
OtherImage == <<0>>

\* what the edit service may put in the first inline part of its answer
ReturnedImages == {PngImage, JpegImage, OtherImage}

NoFile == [exists |-> FALSE]
FileOf(b, e) == [exists |-> TRUE, bytes |-> b, exif |-> e]
NoExif == "none"

\* directory entries of input/ as readdir reports them
Entry(n, f, b, e) == [name |-> n, isFile |-> f, bytes |-> b, exif |-> e]
ENTRY_A == Entry(NAME_A, TRUE, JpegImage, "exifA")
\* a PNG picture under a JPEG name
ENTRY_B == Entry(NAME_B, TRUE, PngImage \o <<1>>, "exifB")
ENTRY_C == Entry(NAME_C, TRUE, PngImage, "exifC")
ENTRY_D == Entry(NAME_D, FALSE, <<>>, NoExif)
ENTRY_H == Entry(NAME_H, TRUE, JpegImage, "exifH")

\* an output file left by an earlier run
StaleOutput == FileOf(SharpJpeg(OtherImage), NoExif)

EmptyOutputDir == [n \in Names |-> NoFile]
StaleOutputDir == [n \in Names |-> IF n = NAME_A THEN StaleOutput ELSE NoFile]

\* the directories the program may be started in: input/ and output/
Disk(i, o) == [input |-> i, output |-> o]

Disks ==
  { Disk(<<>>, EmptyOutputDir),
    Disk(<<ENTRY_A, ENTRY_B, ENTRY_C, ENTRY_D>>, EmptyOutputDir),
    Disk(<<ENTRY_H, ENTRY_A>>, EmptyOutputDir),
    Disk(<<ENTRY_H, ENTRY_A>>, StaleOutputDir) }

\* the lines the operator may type at the comment prompt: plain, padded
\* on both sides, and blank
TypedLines == { <<"a">>, <<" ", "b", " ">>, <<" ">> }

NoBuffer == <<-1>>
NoJpeg == [format |-> "none"]
NoRequest == [sent |-> FALSE]

(***************************************************************************)
(* State                                                                   *)
(***************************************************************************)
VARIABLES
  apiKey,          \* process.env GEMINI_API_KEY is set
  inputDir,        \* input/: the entries, in readdir order, with contents
  outputDir,       \* output/: name -> file
  pc,              \* the await the program is at
  files,           \* main: the inventory
  idx,             \* main: position of the for loop in files
  filename,        \* processOneFile: its argument
  inputBuffer,     \* processOneFile: bytes read from the input file
  workingBuffer,   \* processOneFile context
  workingMime,
  currentPrompt,
  returnedBuffer,  \* image of the current iteration
  jpegBuffer,
  console,         \* lines main logs: <<kind, file>>
  exiftoolEnds,    \* number of exiftool.end() calls
  \* history, for stating properties
  event,           \* the step just taken and its outcome
  attempted,       \* files processOneFile was called on, in order
  typed,           \* lines typed at the comment prompt since the context was fresh
  lastChoice,      \* last menu answer of this Job
  lastRequest,     \* the request of the last edit call of this Job
  prevReturned,    \* what the edit call before the last one returned
  nCalls,          \* edit calls of this Job
  lastOutcome,     \* how the last edit call of this Job ended
  nChoices,        \* comment and retry answers of this Job
  nComments,       \* comment answers of this Job
  exifFailed,      \* the EXIF copy onto the output file as last written failed
  hadOutput,       \* the output file existed when this Job started
  startedEmpty,    \* output/ was empty when the program started
  written,         \* files whose output was written in this run
  unlinked,        \* files whose output a skip removed in this run
  exitCode,        \* status the process ends with, -1 while it runs
  purePc,          \* a pure function applied on its own: "idle", "ready", "done"
  pureFn,          \* which one
  pureArg,         \* its argument
  pureOut,         \* its result
  fault            \* what the Job threw

vars ==
  << apiKey, inputDir, outputDir, pc, files, idx, filename, inputBuffer,
     workingBuffer, workingMime, currentPrompt, returnedBuffer, jpegBuffer,
     console, exiftoolEnds, event, attempted, typed, lastChoice, lastRequest,
     prevReturned, nCalls, lastOutcome, nChoices, nComments, exifFailed,
     hadOutput, startedEmpty, written, unlinked, exitCode, purePc, pureFn,
     pureArg, pureOut, fault >>

env == <<apiKey, startedEmpty>>
disk == <<inputDir, outputDir>>
mainLocals == <<files, idx>>
context == <<workingBuffer, workingMime, currentPrompt>>
jobLocals == <<filename, inputBuffer, returnedBuffer, jpegBuffer>>
callHistory == <<lastRequest, prevReturned, nCalls, lastOutcome>>
choiceHistory == <<typed, lastChoice, nChoices, nComments>>
jobFlags == <<exifFailed, hadOutput>>
jobHistory == <<callHistory, choiceHistory, jobFlags>>
pure == <<purePc, pureFn, pureArg, pureOut>>
aside == <<pure, exitCode, unlinked>>

\* the file of input/ called n
InputFile(n) ==
  IF \E i \in 1..Len(inputDir) : inputDir[i].name = n /\ inputDir[i].isFile
  THEN LET i == CHOOSE j \in 1..Len(inputDir) : inputDir[j].name = n
       IN FileOf(inputDir[i].bytes, inputDir[i].exif)
  ELSE NoFile

\* fsp.rm(path, {force: true}) on input/: the entry is gone
RemoveEntry(dir, n) ==
  LET keep == {i \in 1..Len(dir) : dir[i].name # n}
      RECURSIVE Build(_)
      Build(i) ==
        IF i > Len(dir) THEN <<>>
        ELSE IF i \in keep THEN <<dir[i]>> \o Build(i + 1) ELSE Build(i + 1)
  IN Build(1)

\* the locals and the history before main() has done anything
Fresh ==
  /\ files = <<>>
  /\ idx = 0
  /\ filename = <<>>
  /\ inputBuffer = NoBuffer
  /\ workingBuffer = NoBuffer
  /\ workingMime = ""
  /\ currentPrompt = <<>>
  /\ returnedBuffer = NoBuffer
  /\ jpegBuffer = NoJpeg
  /\ console = <<>>
  /\ exiftoolEnds = 0
  /\ event = "start"
  /\ attempted = <<>>
  /\ typed = <<>>
  /\ lastChoice = "none"
  /\ lastRequest = NoRequest
  /\ prevReturned = NoBuffer
  /\ nCalls = 0
  /\ lastOutcome = "none"
  /\ nChoices = 0
  /\ nComments = 0
  /\ exifFailed = FALSE
  /\ hadOutput = FALSE
  /\ written = {}
  /\ unlinked = {}
  /\ exitCode = -1
  /\ fault = "none"

Init ==
  /\ apiKey \in BOOLEAN
  /\ \E d \in Disks : inputDir = d.input /\ outputDir = d.output
  /\ startedEmpty = (\A n \in Names : ~outputDir[n].exists)
  /\ pc = "main"
  /\ Fresh
  /\ purePc = "idle"
  /\ pureFn = "none"
  /\ pureArg = <<>>
  /\ pureOut = <<>>

(***************************************************************************)
(* listJpegs and the contexts of the review loop                           *)
(***************************************************************************)
RECURSIVE FilterJpegs(_)
FilterJpegs(entries) ==
  IF entries = <<>>
  THEN <<>>
  ELSE IF Head(entries).isFile /\ isJpegFilename(Head(entries).name)
       THEN <<Head(entries).name>> \o FilterJpegs(Tail(entries))
       ELSE FilterJpegs(Tail(entries))

listJpegs(dir) == FilterJpegs(dir)

Context(buf, mime, prompt) ==
  [workingBuffer |-> buf, workingMime |-> mime, currentPrompt |-> prompt]

\* the context a Job starts with
InitialContext(fname, input) ==
  Context(input, chooseMimeTypeFromFilename(fname), PROMPT_TEXT)

\* variant: a comment keeps the MIME type of the working context
CommentContext_KeepsMime(returned, prompt, comment) ==
  Context(returned, workingMime, AppendComment(prompt, comment))

\* choice === "comment"
CommentContext(returned, prompt, comment) ==
  Context(returned, detectMimeTypeFromBuffer(returned),
          AppendComment(prompt, comment))

\* variant: retry re-uploads the original but keeps the prompt
RetryContext_KeepsPrompt(fname, input) ==
  Context(input, chooseMimeTypeFromFilename(fname), currentPrompt)

\* variant: retry resets the prompt but keeps the working image
RetryContext_KeepsImage(fname, input) ==
  Context(workingBuffer, chooseMimeTypeFromFilename(fname), PROMPT_TEXT)

\* choice === "retry"
RetryContext(fname, input) ==
  Context(input, chooseMimeTypeFromFilename(fname), PROMPT_TEXT)

SetContext(c) ==
  /\ workingBuffer' = c.workingBuffer
  /\ workingMime' = c.workingMime
  /\ currentPrompt' = c.currentPrompt

Log(kind, file) == console' = Append(console, [kind |-> kind, file |-> file])

(***************************************************************************)
(* main                                                                    *)
(***************************************************************************)
\* the credential is absent: main throws before anything else
MainNoKey ==
  /\ pc = "main"
  /\ ~apiKey
  /\ pc' = "main_catch"
  /\ event' = "no_key"
  /\ UNCHANGED <<aside, env, disk, mainLocals, context, jobLocals, jobHistory,
                 console, exiftoolEnds, attempted, written, fault>>

\* the credential is present: both directories are ensured
MainEnsureDirs ==
  /\ pc = "main"
  /\ apiKey
  /\ pc' = "list"
  /\ event' = "ensure"
  /\ UNCHANGED <<aside, env, disk, mainLocals, context, jobLocals, jobHistory,
                 console, exiftoolEnds, attempted, written, fault>>

MainList ==
  /\ pc = "list"
  /\ files' = listJpegs(inputDir)
  /\ IF files' = <<>>
     THEN /\ Log("NoJpeg", <<>>)
          /\ pc' = "finally"
          /\ idx' = idx
     ELSE /\ console' = console
          /\ pc' = "loop"
          /\ idx' = 1
  /\ event' = "list"
  /\ UNCHANGED <<aside, env, disk, context, jobLocals, jobHistory, exiftoolEnds,
                 attempted, written, fault>>

\* readdir fails
MainListThrows ==
  /\ pc = "list"
  /\ pc' = "main_catch"
  /\ event' = "list_error"
  /\ UNCHANGED <<aside, env, disk, mainLocals, context, jobLocals, jobHistory,
                 console, exiftoolEnds, attempted, written, fault>>

\* the for loop calls processOneFile on the next file
\* the locals of the Job just reported are gone, and its history with them
ForgetJob ==
  /\ inputBuffer' = NoBuffer
  /\ returnedBuffer' = NoBuffer
  /\ jpegBuffer' = NoJpeg
  /\ SetContext(Context(NoBuffer, "", <<>>))
  /\ typed' = <<>>
  /\ lastChoice' = "none"
  /\ lastRequest' = NoRequest
  /\ prevReturned' = NoBuffer
  /\ nCalls' = 0
  /\ lastOutcome' = "none"
  /\ nChoices' = 0
  /\ nComments' = 0
  /\ exifFailed' = FALSE
  /\ fault' = "none"

LoopNext ==
  /\ pc = "loop"
  /\ idx <= Len(files)
  /\ filename' = files[idx]
  /\ attempted' = Append(attempted, files[idx])
  /\ pc' = "read"
  /\ event' = "job_start"
  /\ ForgetJob
  /\ hadOutput' = outputDir[files[idx]].exists
  /\ UNCHANGED <<aside, env, disk, mainLocals, console, exiftoolEnds, written>>

\* the for loop is over
LoopDone ==
  /\ pc = "loop"
  /\ idx > Len(files)
  /\ pc' = "finally"
  /\ event' = "loop_done"
  /\ ForgetJob
  /\ filename' = <<>>
  /\ hadOutput' = FALSE
  /\ UNCHANGED <<aside, env, disk, mainLocals, console, exiftoolEnds,
                 attempted, written>>

\* processOneFile returned: the try block logs and the loop goes on
ReportProcessed ==
  /\ pc = "returned"
  /\ Log("Processed", filename)
  /\ idx' = idx + 1
  /\ pc' = "loop"
  /\ event' = "report_processed"
  /\ UNCHANGED <<aside, env, disk, files, context, jobLocals, jobHistory,
                 exiftoolEnds, attempted, written, fault>>

\* variant: the error of a Job leaves the for loop
ReportError_Aborts ==
  /\ pc = "threw"
  /\ Log("Error", filename)
  /\ idx' = idx
  /\ pc' = "main_catch"
  /\ event' = "report_error"
  /\ UNCHANGED <<aside, env, disk, files, context, jobLocals, jobHistory,
                 exiftoolEnds, attempted, written, fault>>

\* variant: the Processed line is logged after the try statement
ReportError_AlsoProcessed ==
  /\ pc = "threw"
  /\ console' = Append(Append(console, [kind |-> "Error", file |-> filename]),
                       [kind |-> "Processed", file |-> filename])
  /\ idx' = idx + 1
  /\ pc' = "loop"
  /\ event' = "report_error"
  /\ UNCHANGED <<aside, env, disk, files, context, jobLocals, jobHistory,
                 exiftoolEnds, attempted, written, fault>>

\* processOneFile threw: the catch block logs and the loop goes on
ReportError ==
  /\ pc = "threw"
  /\ Log("Error", filename)
  /\ idx' = idx + 1
  /\ pc' = "loop"
  /\ event' = "report_error"
  /\ UNCHANGED <<aside, env, disk, files, context, jobLocals, jobHistory,
                 exiftoolEnds, attempted, written, fault>>

\* main().catch
\* variant: the catch handler ends the process itself
MainCatch_Exits ==
  /\ pc = "main_catch"
  /\ Log("Fatal", <<>>)
  /\ exitCode' = 0
  /\ pc' = "exited"
  /\ event' = "main_catch"
  /\ UNCHANGED <<pure, unlinked, env, disk, mainLocals, context, jobLocals,
                 jobHistory, exiftoolEnds, attempted, written, fault>>

MainCatch ==
  /\ pc = "main_catch"
  /\ Log("Fatal", <<>>)
  /\ pc' = "finally"
  /\ event' = "main_catch"
  /\ UNCHANGED <<aside, env, disk, mainLocals, context, jobLocals, jobHistory,
                 exiftoolEnds, attempted, written, fault>>

\* .finally: exiftool.end() resolves
MainFinally ==
  /\ pc = "finally"
  /\ exiftoolEnds' = exiftoolEnds + 1
  /\ exitCode' = 0
  /\ pc' = "exited"
  /\ event' = "finally"
  /\ UNCHANGED <<pure, unlinked, env, disk, mainLocals, context, jobLocals,
                 jobHistory, console, attempted, written, fault>>

\* .finally: exiftool.end() rejects and the empty catch swallows it
MainFinallyEndFails ==
  /\ pc = "finally"
  /\ exiftoolEnds' = exiftoolEnds + 1
  /\ exitCode' = 0
  /\ pc' = "exited"
  /\ event' = "finally_end_failed"
  /\ UNCHANGED <<pure, unlinked, env, disk, mainLocals, context, jobLocals,
                 jobHistory, console, attempted, written, fault>>

(***************************************************************************)
(* processOneFile                                                          *)
(***************************************************************************)
\* variant: the input is also copied to the output path before any edit
ReadInput_SeedsOutput ==
  /\ pc = "read"
  /\ InputFile(filename).exists
  /\ inputBuffer' = InputFile(filename).bytes
  /\ SetContext(InitialContext(filename, inputBuffer'))
  /\ outputDir' =
       [outputDir EXCEPT ![filename] = FileOf(SharpJpeg(inputBuffer'), NoExif)]
  /\ pc' = "generate"
  /\ event' = "read"
  /\ UNCHANGED <<aside, env, inputDir, mainLocals, filename, returnedBuffer,
                 jpegBuffer, jobHistory, console, exiftoolEnds, attempted,
                 written, fault>>

\* fsp.readFile(inputPath), then the initial context
ReadInput ==
  /\ pc = "read"
  /\ InputFile(filename).exists
  /\ inputBuffer' = InputFile(filename).bytes
  /\ SetContext(InitialContext(filename, inputBuffer'))
  /\ pc' = "generate"
  /\ event' = "read"
  /\ UNCHANGED <<aside, env, disk, mainLocals, filename, returnedBuffer, jpegBuffer,
                 jobHistory, console, exiftoolEnds, attempted, written, fault>>

ReadThrows ==
  /\ pc = "read"
  /\ pc' = "threw"
  /\ fault' = "read"
  /\ event' = "read_error"
  /\ UNCHANGED <<aside, env, disk, mainLocals, context, jobLocals, jobHistory,
                 console, exiftoolEnds, attempted, written>>

\* the request sendImageAndGetReturnedImage sends
Request(prompt, image, mime) ==
  [sent |-> TRUE, prompt |-> prompt, image |-> image, mimeType |-> mime]

SendRequest ==
  /\ lastRequest' = Request(currentPrompt, workingBuffer, workingMime)
  /\ prevReturned' = returnedBuffer
  /\ nCalls' = nCalls + 1

\* the answer carries an inline image
EditReturnsImage(img) ==
  /\ pc = "generate"
  /\ SendRequest
  /\ returnedBuffer' = img
  /\ lastOutcome' = "image"
  /\ pc' = "reencode"
  /\ event' = "edit_image"
  /\ UNCHANGED <<aside, env, disk, mainLocals, context, filename, inputBuffer,
                 jpegBuffer, choiceHistory, jobFlags, console, exiftoolEnds,
                 attempted, written, fault>>

\* variant: an answer without image falls through to the menu
EditReturnsNoImage_ToMenu ==
  /\ pc = "generate"
  /\ SendRequest
  /\ returnedBuffer' = NoBuffer
  /\ lastOutcome' = "no_image"
  /\ pc' = "menu"
  /\ event' = "edit_none"
  /\ UNCHANGED <<aside, env, disk, mainLocals, context, filename, inputBuffer,
                 jpegBuffer, choiceHistory, jobFlags, console, exiftoolEnds,
                 attempted, written, fault>>

\* variant: an answer without image also removes the Job's output file
EditReturnsNoImage_RemovesOutput ==
  /\ pc = "generate"
  /\ SendRequest
  /\ returnedBuffer' = NoBuffer
  /\ lastOutcome' = "no_image"
  /\ outputDir' = [outputDir EXCEPT ![filename] = NoFile]
  /\ pc' = "returned"
  /\ event' = "edit_none"
  /\ UNCHANGED <<aside, env, inputDir, mainLocals, context, filename, inputBuffer,
                 jpegBuffer, choiceHistory, jobFlags, console, exiftoolEnds,
                 attempted, written, fault>>

\* the answer carries no inline image: warn and return
EditReturnsNoImage ==
  /\ pc = "generate"
  /\ SendRequest
  /\ returnedBuffer' = NoBuffer
  /\ lastOutcome' = "no_image"
  /\ pc' = "returned"
  /\ event' = "edit_none"
  /\ UNCHANGED <<aside, env, disk, mainLocals, context, filename, inputBuffer,
                 jpegBuffer, choiceHistory, jobFlags, console, exiftoolEnds,
                 attempted, written, fault>>

\* variant: a rejected generateContent is tried again
EditThrows_Retries ==
  /\ pc = "generate"
  /\ SendRequest
  /\ lastOutcome' = "error"
  /\ pc' = "generate"
  /\ fault' = "none"
  /\ event' = "edit_error"
  /\ UNCHANGED <<aside, env, disk, mainLocals, context, jobLocals, choiceHistory,
                 jobFlags, console, exiftoolEnds, attempted, written>>

\* generateContent rejects
EditThrows ==
  /\ pc = "generate"
  /\ SendRequest
  /\ lastOutcome' = "error"
  /\ pc' = "threw"
  /\ fault' = "edit"
  /\ event' = "edit_error"
  /\ UNCHANGED <<aside, env, disk, mainLocals, context, jobLocals, choiceHistory,
                 jobFlags, console, exiftoolEnds, attempted, written>>

ReencodeOk ==
  /\ pc = "reencode"
  /\ jpegBuffer' = SharpJpeg(returnedBuffer)
  /\ pc' = "write"
  /\ event' = "reencode"
  /\ UNCHANGED <<aside, env, disk, mainLocals, context, filename, inputBuffer,
                 returnedBuffer, jobHistory, console, exiftoolEnds, attempted,
                 written, fault>>

\* sharp cannot decode the returned bytes
ReencodeThrows ==
  /\ pc = "reencode"
  /\ pc' = "threw"
  /\ fault' = "reencode"
  /\ event' = "reencode_error"
  /\ UNCHANGED <<aside, env, disk, mainLocals, context, jobLocals, jobHistory,
                 console, exiftoolEnds, attempted, written>>

\* fsp.writeFile(outputPath, jpegBuffer)
WriteOk ==
  /\ pc = "write"
  /\ outputDir' = [outputDir EXCEPT ![filename] = FileOf(jpegBuffer, NoExif)]
  /\ written' = written \cup {filename}
  /\ exifFailed' = FALSE
  /\ pc' = "exif"
  /\ event' = "write"
  /\ UNCHANGED <<aside, env, inputDir, mainLocals, context, jobLocals, callHistory,
                 choiceHistory, hadOutput, console, exiftoolEnds, attempted,
                 fault>>

\* variant: the rejection of writeFile is caught like that of the EXIF copy
WriteThrows_Ignored ==
  /\ pc = "write"
  /\ pc' = "exif"
  /\ fault' = "none"
  /\ event' = "write_error"
  /\ UNCHANGED <<aside, env, disk, mainLocals, context, jobLocals, jobHistory,
                 console, exiftoolEnds, attempted, written>>

WriteThrows ==
  /\ pc = "write"
  /\ pc' = "threw"
  /\ fault' = "write"
  /\ event' = "write_error"
  /\ UNCHANGED <<aside, env, disk, mainLocals, context, jobLocals, jobHistory,
                 console, exiftoolEnds, attempted, written>>

\* copyAllExifFromTo(inputPath, outputPath): the tags of the input file
\* replace those of the output file
ExifOk ==
  /\ pc = "exif"
  /\ InputFile(filename).exists
  /\ outputDir' =
       [outputDir EXCEPT ![filename] =
          FileOf(outputDir[filename].bytes, InputFile(filename).exif)]
  /\ pc' = "menu"
  /\ event' = "exif"
  /\ UNCHANGED <<aside, env, inputDir, mainLocals, context, jobLocals, jobHistory,
                 console, exiftoolEnds, attempted, written, fault>>

\* variant: the EXIF copy is not guarded by a try block
ExifFails_Throws ==
  /\ pc = "exif"
  /\ exifFailed' = TRUE
  /\ pc' = "threw"
  /\ fault' = "exif"
  /\ event' = "exif_error"
  /\ UNCHANGED <<aside, env, disk, mainLocals, context, jobLocals, callHistory,
                 choiceHistory, hadOutput, console, exiftoolEnds, attempted,
                 written>>

\* exiftool rejects: caught, warned about, ignored
ExifFails ==
  /\ pc = "exif"
  /\ exifFailed' = TRUE
  /\ pc' = "menu"
  /\ event' = "exif_error"
  /\ UNCHANGED <<aside, env, disk, mainLocals, context, jobLocals, callHistory,
                 choiceHistory, hadOutput, console, exiftoolEnds, attempted,
                 written, fault>>

\* variant: accept does not leave the loop
ChooseAccept_Continues ==
  /\ pc = "menu"
  /\ nCalls < MaxCalls
  /\ lastChoice' = "accept"
  /\ pc' = "generate"
  /\ event' = "accept"
  /\ UNCHANGED <<aside, env, disk, mainLocals, context, jobLocals, typed,
                 callHistory, nChoices, nComments, jobFlags, console,
                 exiftoolEnds, attempted, written, fault>>

\* choice === "accept": break
ChooseAccept ==
  /\ pc = "menu"
  /\ lastChoice' = "accept"
  /\ pc' = "returned"
  /\ event' = "accept"
  /\ UNCHANGED <<aside, env, disk, mainLocals, context, jobLocals, typed,
                 callHistory, nChoices, nComments, jobFlags, console,
                 exiftoolEnds, attempted, written, fault>>

ChooseComment(line) ==
  /\ pc = "menu"
  /\ nCalls < MaxCalls
  /\ SetContext(CommentContext(returnedBuffer, currentPrompt, promptComment(line)))
  /\ typed' = Append(typed, line)
  /\ lastChoice' = "comment"
  /\ nChoices' = nChoices + 1
  /\ nComments' = nComments + 1
  /\ pc' = "generate"
  /\ event' = "comment"
  /\ UNCHANGED <<aside, env, disk, mainLocals, jobLocals, callHistory, jobFlags,
                 console, exiftoolEnds, attempted, written, fault>>

ChooseRetry ==
  /\ pc = "menu"
  /\ nCalls < MaxCalls
  /\ SetContext(RetryContext(filename, inputBuffer))
  /\ typed' = <<>>
  /\ lastChoice' = "retry"
  /\ nChoices' = nChoices + 1
  /\ pc' = "generate"
  /\ event' = "retry"
  /\ UNCHANGED <<aside, env, disk, mainLocals, jobLocals, callHistory, nComments,
                 jobFlags, console, exiftoolEnds, attempted, written, fault>>

\* the event a skip leaves, by the removals that succeeded
SkipEvent(rmOut, rmIn) ==
  CASE rmOut /\ rmIn -> "skip"
    [] ~rmOut /\ rmIn -> "skip_output_kept"
    [] rmOut /\ ~rmIn -> "skip_input_kept"
    [] OTHER -> "skip_both_kept"

\* variant: skip removes the input only
ChooseSkip_KeepsOutput(rmOut, rmIn) ==
  /\ pc = "menu"
  /\ outputDir' = outputDir
  /\ inputDir' = IF rmIn THEN RemoveEntry(inputDir, filename) ELSE inputDir
  /\ unlinked' = IF rmOut THEN unlinked \cup {filename} ELSE unlinked
  /\ lastChoice' = "skip"
  /\ pc' = "returned"
  /\ event' = SkipEvent(rmOut, rmIn)
  /\ UNCHANGED <<pure, exitCode, env, mainLocals, context, jobLocals, typed,
                 callHistory, nChoices, nComments, jobFlags, console,
                 exiftoolEnds, attempted, written, fault>>

\* variant: skip removes the output only
ChooseSkip_KeepsInput(rmOut, rmIn) ==
  /\ pc = "menu"
  /\ outputDir' = IF rmOut THEN [outputDir EXCEPT ![filename] = NoFile] ELSE outputDir
  /\ inputDir' = inputDir
  /\ unlinked' = IF rmOut THEN unlinked \cup {filename} ELSE unlinked
  /\ lastChoice' = "skip"
  /\ pc' = "returned"
  /\ event' = SkipEvent(rmOut, rmIn)
  /\ UNCHANGED <<pure, exitCode, env, mainLocals, context, jobLocals, typed, callHistory,
                 nChoices, nComments, jobFlags, console, exiftoolEnds,
                 attempted, written, fault>>

\* fsp.rm(outputPath, {force: true}) and fsp.rm(inputPath, {force: true}),
\* each in a try block of its own whose catch is empty; rmOut and rmIn tell
\* whether the removal succeeded
ChooseSkip(rmOut, rmIn) ==
  /\ pc = "menu"
  /\ outputDir' = IF rmOut THEN [outputDir EXCEPT ![filename] = NoFile] ELSE outputDir
  /\ inputDir' = IF rmIn THEN RemoveEntry(inputDir, filename) ELSE inputDir
  /\ unlinked' = IF rmOut THEN unlinked \cup {filename} ELSE unlinked
  /\ lastChoice' = "skip"
  /\ pc' = "returned"
  /\ event' = SkipEvent(rmOut, rmIn)
  /\ UNCHANGED <<pure, exitCode, env, mainLocals, context, jobLocals, typed, callHistory,
                 nChoices, nComments, jobFlags, console, exiftoolEnds,
                 attempted, written, fault>>

(***************************************************************************)
(* The program                                                             *)
(***************************************************************************)
Next ==
  \/ MainNoKey
  \/ MainEnsureDirs
  \/ MainList
  \/ MainListThrows
  \/ LoopNext
  \/ LoopDone
  \/ ReadInput
  \/ ReadThrows
  \/ \E img \in ReturnedImages : EditReturnsImage(img)
  \/ EditReturnsNoImage
  \/ EditThrows
  \/ ReencodeOk
  \/ ReencodeThrows
  \/ WriteOk
  \/ WriteThrows
  \/ ExifOk
  \/ ExifFails
  \/ ChooseAccept
  \/ \E line \in TypedLines : ChooseComment(line)
  \/ ChooseRetry
  \/ \E rmOut \in BOOLEAN, rmIn \in BOOLEAN : ChooseSkip(rmOut, rmIn)
  \/ ReportProcessed
  \/ ReportError
  \/ MainCatch
  \/ MainFinally
  \/ MainFinallyEndFails

Spec == Init /\ [][Next]_vars

\* every awaited operation settles and every prompt is answered
FairSpec == Spec /\ WF_vars(Next)

(***************************************************************************)
(* detectMimeTypeFromBuffer and listJpegs applied on their own             *)
(***************************************************************************)
SeqsUpTo(S, n) == UNION {[1..k -> S] : k \in 0..n}

Bytes == {0, 137, 216, 255}

\* buffers: short ones over Bytes, the PNG signature cut at every length and
\* followed by at most one byte, and the signature with one byte changed
Buffers ==
  SeqsUpTo(Bytes, MaxBufLen)
    \cup {SubSeq(PngImage, 1, k) \o b : k \in 0..8, b \in SeqsUpTo(Bytes, 1)}
    \cup {[PngImage EXCEPT ![i] = 0] : i \in 1..8}

NAME_E == <<"e">>
NAME_F == <<"f", ".", "j", "p", "g", "x">>
NAME_G == <<"g", ".", "t", "a", "r", ".", "J", "p", "e", "g">>

\* what readdir may report: JPEG files, a PNG file, a directory named like
\* a JPEG, a dotfile, a file without extension, one with a longer extension
PureEntries ==
  { ENTRY_A, ENTRY_B, ENTRY_C, ENTRY_D, ENTRY_H,
    Entry(NAME_E, TRUE, JpegImage, NoExif),
    Entry(NAME_F, TRUE, JpegImage, NoExif),
    Entry(NAME_G, TRUE, JpegImage, NoExif) }

\* directory listings: no two entries of a directory share a name
Listings ==
  { l \in SeqsUpTo(PureEntries, MaxEntries) :
      \A i, j \in 1..Len(l) : i # j => l[i].name # l[j].name }

program ==
  << apiKey, inputDir, outputDir, pc, files, idx, filename, inputBuffer,
     workingBuffer, workingMime, currentPrompt, returnedBuffer, jpegBuffer,
     console, exiftoolEnds, event, attempted, typed, lastChoice, lastRequest,
     prevReturned, nCalls, lastOutcome, nChoices, nComments, exifFailed,
     hadOutput, startedEmpty, written, unlinked, exitCode, fault >>

PureInit ==
  /\ apiKey = FALSE
  /\ inputDir = <<>>
  /\ outputDir = EmptyOutputDir
  /\ startedEmpty = TRUE
  /\ pc = "pure"
  /\ Fresh
  /\ purePc = "ready"
  /\ pureOut = <<>>
  /\ \/ pureFn = "detectMimeTypeFromBuffer" /\ pureArg \in Buffers
     \/ pureFn = "listJpegs" /\ pureArg \in Listings

Classify ==
  /\ purePc = "ready"
  /\ pureFn = "detectMimeTypeFromBuffer"
  /\ pureOut' = detectMimeTypeFromBuffer(pureArg)
  /\ purePc' = "done"
  /\ UNCHANGED <<program, pureFn, pureArg>>

ListJobs ==
  /\ purePc = "ready"
  /\ pureFn = "listJpegs"
  /\ pureOut' = listJpegs(pureArg)
  /\ purePc' = "done"
  /\ UNCHANGED <<program, pureFn, pureArg>>

PureNext == Classify \/ ListJobs

PureSpec == PureInit /\ [][PureNext]_vars

(***************************************************************************)
(* The single-shot variant of processOneFile, as a function of the outcomes *)
(* of its awaited steps                                                    *)
(***************************************************************************)
\* how the steps of one Job may end
Outcomes ==
  [ readOk : BOOLEAN, edit : {"image", "no_image", "error"},
    image : ReturnedImages, reencodeOk : BOOLEAN, writeOk : BOOLEAN,
    exifOk : BOOLEAN ]

\* the request the single-shot sendImageAndGetReturnedImage sends
SingleShot_sendImageAndGetReturnedImage(fname, imageBuffer) ==
  Request(PROMPT_TEXT, imageBuffer, chooseMimeTypeFromFilename(fname))

\* what the Job leaves: the request made, the input file, the output file
\* and the line main logs
Left(req, inFile, outFile, line) ==
  [request |-> req, input |-> inFile, output |-> outFile, report |-> line]

\* variant: the single-shot Job writes the output without copying the tags
SingleShot_processOneFile_NoExif(fname, inFile, outBefore, o) ==
  LET req == SingleShot_sendImageAndGetReturnedImage(fname, inFile.bytes)
  IN IF ~o.readOk THEN Left(NoRequest, inFile, outBefore, "Error")
     ELSE IF o.edit = "error" THEN Left(req, inFile, outBefore, "Error")
     ELSE IF o.edit = "no_image" THEN Left(req, inFile, outBefore, "Processed")
     ELSE IF ~o.reencodeOk THEN Left(req, inFile, outBefore, "Error")
     ELSE IF ~o.writeOk THEN Left(req, inFile, outBefore, "Error")
     ELSE Left(req, inFile, FileOf(SharpJpeg(o.image), NoExif), "Processed")

SingleShot_processOneFile(fname, inFile, outBefore, o) ==
  LET req == SingleShot_sendImageAndGetReturnedImage(fname, inFile.bytes)
  IN IF ~o.readOk THEN Left(NoRequest, inFile, outBefore, "Error")
     ELSE IF o.edit = "error" THEN Left(req, inFile, outBefore, "Error")
     ELSE IF o.edit = "no_image" THEN Left(req, inFile, outBefore, "Processed")
     ELSE IF ~o.reencodeOk THEN Left(req, inFile, outBefore, "Error")
     ELSE IF ~o.writeOk THEN Left(req, inFile, outBefore, "Error")
     ELSE IF ~o.exifOk
          THEN Left(req, inFile, FileOf(SharpJpeg(o.image), NoExif), "Processed")
          ELSE Left(req, inFile, FileOf(SharpJpeg(o.image), inFile.exif),
                    "Processed")

(***************************************************************************)
(* Properties                                                              *)
(***************************************************************************)
\* an edit call has just been made
EditCalled == event \in {"edit_image", "edit_none", "edit_error"}

\* every line, each behind a newline
RECURSIVE JoinLines(_)
JoinLines(lines) ==
  IF lines = <<>>
  THEN <<>>
  ELSE <<"\n">> \o Head(lines) \o JoinLines(Tail(lines))

\* a line without the blanks around it
RECURSIVE Stripped(_)
Stripped(line) ==
  IF line = <<>> THEN <<>>
  ELSE IF Head(line) = " " THEN Stripped(Tail(line))
  ELSE IF line[Len(line)] = " " THEN Stripped(SubSeq(line, 1, Len(line) - 1))
  ELSE line

StrippedLines(lines) == [i \in 1..Len(lines) |-> Stripped(lines[i])]

\* C1 as stated: after k >= 1 comments in a row on a fresh context, the edit
\* call is sent the base prompt followed by a newline and each comment text
\* as the operator typed it, in order, with the image the call before returned.
C1_CommentsVerbatim ==
  (EditCalled /\ lastChoice = "comment") =>
    /\ lastRequest.prompt = PROMPT_TEXT \o JoinLines(typed)
    /\ lastRequest.image = prevReturned

\* C1 amended: the same, with every comment text stripped of the white space
\* around it (a blank comment contributes an empty line).
C1_CommentsAccumulateTrimmed ==
  (EditCalled /\ lastChoice = "comment") =>
    /\ Len(typed) >= 1
    /\ lastRequest.prompt = PROMPT_TEXT \o JoinLines(StrippedLines(typed))
    /\ lastRequest.image = prevReturned

C1_Witness ==
  /\ EditCalled
  /\ lastChoice = "comment"
  /\ typed = << <<" ", "b", " ">>, <<"a">> >>
  /\ prevReturned = PngImage
  /\ lastRequest.image # inputBuffer

\* C2: the edit call that follows a retry is sent exactly the base prompt and
\* the bytes of the input file, whatever comments came before.
C2_RetryIsFresh ==
  (EditCalled /\ lastChoice = "retry") =>
    /\ lastRequest.prompt = PROMPT_TEXT
    /\ InputFile(filename).exists
    /\ lastRequest.image = InputFile(filename).bytes

C2_Witness ==
  /\ EditCalled
  /\ lastChoice = "retry"
  /\ nComments >= 1
  /\ prevReturned # InputFile(filename).bytes

\* C3 as stated: once the operator has answered skip, neither the output file
\* nor the input file of the Job exists.
C3_SkipRemovesBoth ==
  (lastChoice = "skip") =>
    /\ ~outputDir[filename].exists
    /\ ~InputFile(filename).exists

\* C3 amended: after skip the Job is over, and each of the two files is gone
\* unless its removal failed; a failed removal is ignored and leaves the file.
C3_SkipRemovesWhatItCan ==
  (lastChoice = "skip") =>
    /\ pc \in {"returned", "loop", "finally", "exited"}
    /\ fault = "none"
    /\ event = "skip" => ~outputDir[filename].exists /\ ~InputFile(filename).exists
    /\ event = "skip_output_kept" =>
         outputDir[filename].exists /\ ~InputFile(filename).exists
    /\ event = "skip_input_kept" =>
         ~outputDir[filename].exists /\ InputFile(filename).exists
    /\ event = "skip_both_kept" =>
         outputDir[filename].exists /\ InputFile(filename).exists

C3_Witness ==
  /\ event = "skip"
  /\ nComments >= 1
  /\ nChoices > nComments
  /\ filename \in written
  /\ ~outputDir[filename].exists
  /\ ~InputFile(filename).exists

JobOver == pc \in {"returned", "loop", "finally", "exited"}

\* C4: after accept the Job is over with no further edit call, write or
\* removal: the output file is the JPEG re-encode of the image the last edit
\* call returned, with the tags of the input if their copy succeeded, and the
\* input file is in place.
C4_AcceptStops ==
  /\ [](lastChoice = "accept" =>
         /\ JobOver
         /\ fault = "none"
         /\ lastOutcome = "image"
         /\ InputFile(filename).exists
         /\ InputFile(filename).bytes = inputBuffer
         /\ outputDir[filename] =
              FileOf(SharpJpeg(returnedBuffer),
                     IF exifFailed THEN NoExif ELSE InputFile(filename).exif))
  /\ [][lastChoice' = "accept" => UNCHANGED <<aside, disk, callHistory>>]_vars

C4_Witness ==
  /\ lastChoice = "accept"
  /\ event = "report_processed"
  /\ nComments >= 1
  /\ ~exifFailed
  /\ outputDir[filename] = FileOf(SharpJpeg(PngImage), InputFile(filename).exif)

\* C5: once an edit call of a Job has returned no image the Job is over: the
\* call touches no file and nothing follows it in that Job but the return to
\* the batch driver (no re-encode, write, EXIF copy, menu or edit call).
C5_NoImageEndsJob ==
  /\ [](lastOutcome = "no_image" => JobOver /\ fault = "none")
  /\ [][lastOutcome' = "no_image" =>
          /\ UNCHANGED disk
          /\ event' \in {"edit_none", "report_processed", "loop_done", "finally"}]_vars

C5_Witness ==
  /\ lastOutcome = "no_image"
  /\ lastChoice = "comment"
  /\ event = "report_processed"
  /\ nCalls = 2

\* C6 as stated: a Job that started without output file and ends because an
\* edit call returned no image has no output file, whatever rounds preceded.
C6_NoImageNoOutput ==
  (lastOutcome = "no_image" /\ ~hadOutput) => ~outputDir[filename].exists

\* C6 amended: a Job that ends because an edit call returned no image leaves
\* the output path as it was before that call: untouched since the Job started
\* when the call is the Job's first, holding the re-encode of the image the
\* previous call returned when it follows comment or retry rounds.
C6_NoImageKeepsOutput ==
  (lastOutcome = "no_image") =>
    /\ nCalls = 1 => (outputDir[filename].exists = hadOutput)
    /\ nCalls = 1 => filename \notin written
    /\ nCalls > 1 =>
         /\ outputDir[filename].exists
         /\ outputDir[filename].bytes = SharpJpeg(prevReturned)

C6_Witness ==
  /\ lastOutcome = "no_image"
  /\ ~hadOutput
  /\ nCalls = 3
  /\ nComments = 1
  /\ outputDir[filename].exists

IsPrefix(p, t) == Len(p) <= Len(t) /\ SubSeq(t, 1, Len(p)) = p

\* C7: every edit call is sent either the base prompt with the bytes of the
\* input file, or the base prompt followed by at least one comment with the
\* image the previous call returned, and never both or neither.
C7_TwoLineages ==
  EditCalled =>
    LET fresh ==
          /\ lastRequest.prompt = PROMPT_TEXT
          /\ InputFile(filename).exists
          /\ lastRequest.image = InputFile(filename).bytes
        continued ==
          /\ IsPrefix(PROMPT_TEXT \o <<"\n">>, lastRequest.prompt)
          /\ Len(typed) >= 1
          /\ nCalls >= 2
          /\ lastRequest.image = prevReturned
    IN fresh # continued

C7_Witness ==
  /\ EditCalled
  /\ lastChoice = "comment"
  /\ nChoices > nComments
  /\ lastRequest.image = PngImage
  /\ lastRequest.prompt # PROMPT_TEXT

InSeq(x, q) == \E i \in 1..Len(q) : q[i] = x

\* C8: in a run that started with output/ empty, an output file exists only
\* for a file whose Job was started and wrote it, and holds the re-encode of
\* an image an edit call returned.
C8_OutputOnlyAfterWrite ==
  startedEmpty =>
    \A n \in Names :
      outputDir[n].exists =>
        /\ n \in written
        /\ InSeq(n, attempted)
        /\ \E img \in ReturnedImages : outputDir[n].bytes = SharpJpeg(img)

C8_Witness ==
  /\ startedEmpty
  /\ NAME_A \in written
  /\ ~outputDir[NAME_A].exists
  /\ outputDir[NAME_B].exists
  /\ pc = "exited"

\* C9: the files attempted are always a prefix of the inventory, without
\* repetition, and once the loop has been entered the program leaves it only
\* after every file of the inventory has been attempted, whatever failed.
C9_EveryFileAttemptedOnce ==
  /\ Len(attempted) <= Len(files)
  /\ attempted = SubSeq(files, 1, Len(attempted))
  /\ \A i, j \in 1..Len(attempted) : attempted[i] = attempted[j] => i = j
  /\ pc = "loop" => Len(attempted) = idx - 1
  /\ pc \in {"main_catch", "finally", "exited"} => attempted = files

C9_Witness ==
  /\ pc = "exited"
  /\ Len(files) = 2
  /\ attempted = files
  /\ Len(console) = 2
  /\ console[1].kind = "Error"
  /\ console[2].kind = "Error"

\* C10: a failed EXIF copy leaves the output file as just written, leads to
\* the menu of the same cycle, and is never what a Job is reported failed for.
C10_ExifFailureIgnored ==
  /\ event = "exif_error" =>
       /\ pc = "menu"
       /\ fault = "none"
       /\ filename \in written
       /\ outputDir[filename] = FileOf(jpegBuffer, NoExif)
  /\ (pc = "threw" \/ event = "report_error") =>
       fault \in {"read", "edit", "reencode", "write"}
  /\ (exifFailed /\ pc \in {"finally", "exited"}) => attempted = files

C10_Witness ==
  /\ exifFailed
  /\ lastChoice = "accept"
  /\ event = "report_processed"
  /\ console[Len(console)] = [kind |-> "Processed", file |-> filename]
  /\ outputDir[filename].exists
  /\ idx <= Len(files)

\* C11: the batch driver logs exactly one line per file attempted, in order:
\* Processed when processOneFile returned, Error when it threw.
C11_OneLinePerFile ==
  (files # <<>>) =>
    /\ Len(console) <= Len(files)
    /\ \A i \in 1..Len(console) :
         /\ console[i].file = files[i]
         /\ console[i].kind \in {"Processed", "Error"}
    /\ pc = "loop" => Len(console) = idx - 1
    /\ pc \in {"finally", "exited"} => Len(console) = Len(files)
    /\ event = "report_processed" =>
         fault = "none" /\ console[Len(console)].kind = "Processed"
    /\ event = "report_error" =>
         fault # "none" /\ console[Len(console)].kind = "Error"

C11_Witness ==
  /\ pc = "exited"
  /\ Len(files) = 2
  /\ Len(console) = 2
  /\ console[1] = [kind |-> "Error", file |-> NAME_A]
  /\ console[2] = [kind |-> "Processed", file |-> NAME_B]

\* C12 as stated: at the end of a run that started with output/ empty, an
\* output file exists for a file of the inventory exactly when its Job was
\* reported Processed, and none exists for a Job reported Error.
C12_OutputIffProcessed ==
  (pc = "exited" /\ startedEmpty /\ files # <<>>) =>
    \A i \in 1..Len(files) :
      outputDir[files[i]].exists <=> (console[i].kind = "Processed")

\* C12 amended: at the end of such a run an output file exists, under the
\* name of the input, exactly for the files whose Job wrote it at least once
\* and did not remove it on skip, whatever line the Job was reported with;
\* a Job that ended by accept always has one.
C12_OutputIffWrittenAndKept ==
  /\ (pc = "exited" /\ startedEmpty) =>
       /\ \A n \in Names :
            outputDir[n].exists <=> (n \in written /\ n \notin unlinked)
       /\ \A n \in Names : outputDir[n].exists => InSeq(n, files)
  /\ lastChoice = "accept" => outputDir[filename].exists

C12_Witness ==
  /\ pc = "exited"
  /\ startedEmpty
  /\ Len(files) = 2
  /\ console[1].kind = "Error"
  /\ outputDir[files[1]].exists
  /\ console[2].kind = "Processed"
  /\ ~outputDir[files[2]].exists

\* C13 as stated: the process ends with a non-zero status exactly when
\* GEMINI_API_KEY is absent at startup, and with 0 when it is present.
C13_NonZeroIffNoKey ==
  pc = "exited" => ((exitCode # 0) <=> ~apiKey)

\* what the code does: the rejection of main() is logged by its catch handler
\* and nothing sets a status, so every run that ends ends with 0.
C13_AlwaysZero ==
  pc = "exited" => exitCode = 0

C13_Witness ==
  /\ pc = "exited"
  /\ ~apiKey
  /\ console = <<[kind |-> "Fatal", file |-> <<>>]>>
  /\ exitCode = 0

WriteFailed == event = "write_error"

DeleteFailed == event \in {"skip_output_kept", "skip_input_kept", "skip_both_kept"}

\* C14 as stated: a failed write and a failed delete both end the Job on the
\* throwing path, so that the batch driver reports it with an Error line.
C14_WriteOrDeleteFailureIsFatal ==
  (WriteFailed \/ DeleteFailed) =>
    /\ pc = "threw"
    /\ ENABLED ReportError
    /\ ~ENABLED ReportProcessed

\* C14 amended: a failed write of the output file ends the Job there and the
\* batch driver reports it with an Error line; a failed delete on skip is
\* swallowed, the Job returns and is reported Processed; in both cases the
\* loop then goes on to the next file.
C14_WriteFatalDeleteSwallowed ==
  /\ WriteFailed =>
       /\ pc = "threw" /\ fault = "write"
       /\ ENABLED ReportError /\ ~ENABLED ReportProcessed
  /\ DeleteFailed =>
       /\ pc = "returned" /\ fault = "none" /\ lastChoice = "skip"
       /\ ENABLED ReportProcessed /\ ~ENABLED ReportError
  /\ (event \in {"report_error", "report_processed"} /\ idx <= Len(files)) =>
       /\ pc = "loop"
       /\ ENABLED LoopNext
  /\ (event = "report_error" /\ fault = "write") =>
       console[Len(console)] = [kind |-> "Error", file |-> filename]

C14_Witness ==
  /\ event = "report_processed"
  /\ lastChoice = "skip"
  /\ InputFile(filename).exists
  /\ outputDir[filename].exists
  /\ console[Len(console)] = [kind |-> "Processed", file |-> filename]
  /\ Len(console) = 2
  /\ console[1].kind = "Error"

\* C15: on every path exiftool.end() is called, exactly once, as the last
\* step of the program: after the fatal line of a rejected main(), after the
\* "no JPEG" line, or after the line of the last Job; a rejected end() changes
\* neither the console nor the exit status.
C15_ExiftoolEndedOnceAtExit ==
  /\ [](exiftoolEnds \in {0, 1})
  /\ []((exiftoolEnds = 1) <=> (pc = "exited"))
  /\ [](pc = "exited" =>
          /\ ~ENABLED Next
          /\ Len(attempted) = Len(files)
          /\ Len(console) = IF files = <<>> THEN 1 ELSE Len(files)
          /\ exitCode = 0)
  /\ [][pc' = "exited" => (pc = "finally" /\ console' = console)]_vars
  /\ <>(pc = "exited")

C15_Witness ==
  /\ pc = "exited"
  /\ event = "finally_end_failed"
  /\ exiftoolEnds = 1
  /\ Len(files) = 2
  /\ console[2].kind = "Error"

PNG_SIGNATURE == <<137, 80, 78, 71, 13, 10, 26, 10>>
JPEG_SIGNATURE == <<255, 216, 255>>

StartsWith(buf, sig) ==
  Len(buf) >= Len(sig) /\ SubSeq(buf, 1, Len(sig)) = sig

Classified == purePc = "done" /\ pureFn = "detectMimeTypeFromBuffer"

\* C16: detectMimeTypeFromBuffer answers image/png exactly for the buffers of
\* 8 bytes or more that start with the PNG signature, image/jpeg exactly for
\* the others of 3 bytes or more that start with FF D8 FF, and
\* application/octet-stream for the rest: a buffer shorter than 8 bytes,
\* the empty one included, is never image/png.
C16_ClassifyBySignature ==
  Classified =>
    /\ (pureOut = MIME_PNG) <=> StartsWith(pureArg, PNG_SIGNATURE)
    /\ (pureOut = MIME_JPEG) <=>
         (~StartsWith(pureArg, PNG_SIGNATURE) /\ StartsWith(pureArg, JPEG_SIGNATURE))
    /\ (pureOut = MIME_OCTET) <=>
         (~StartsWith(pureArg, PNG_SIGNATURE) /\ ~StartsWith(pureArg, JPEG_SIGNATURE))
    /\ Len(pureArg) < 8 => pureOut # MIME_PNG
    /\ Len(pureArg) < 3 => pureOut = MIME_OCTET

C16_Witness ==
  /\ Classified
  /\ pureArg = SubSeq(PNG_SIGNATURE, 1, 7)
  /\ pureOut = MIME_OCTET

\* the same letter in either case
SameLetter(c, d) ==
  \/ c = d
  \/ {c, d} \in {{"j", "J"}, {"p", "P"}, {"e", "E"}, {"g", "G"}}

\* name ends with ext, whatever the case, after at least one other character
EndsWithExt(name, ext) ==
  /\ Len(name) > Len(ext)
  /\ \A i \in 1..Len(ext) : SameLetter(name[Len(name) - Len(ext) + i], ext[i])

IsJob(e) ==
  /\ e.isFile
  /\ \/ EndsWithExt(e.name, <<".", "j", "p", "g">>)
     \/ EndsWithExt(e.name, <<".", "j", "p", "e", "g">>)

Listed == purePc = "done" /\ pureFn = "listJpegs"

\* C17: listJpegs returns the names of the entries that are regular files
\* with extension .jpg or .jpeg in any case, in the order of the listing:
\* directories and files with another or no extension are left out.
C17_ListsJpegFilesInOrder ==
  Listed =>
    LET jobs == SelectSeq(pureArg, IsJob)
    IN /\ Len(pureOut) = Len(jobs)
       /\ \A i \in 1..Len(jobs) : pureOut[i] = jobs[i].name
       /\ \A i \in 1..Len(pureArg) :
            (~pureArg[i].isFile \/ pureArg[i].name \in {NAME_C, NAME_E, NAME_F})
              => ~InSeq(pureArg[i].name, pureOut)

C17_Witness ==
  /\ Listed
  /\ pureArg = <<ENTRY_D, ENTRY_B, ENTRY_A>>
  /\ pureOut = <<NAME_B, NAME_A>>

\* C18: an edit call is made only right after the input was read or right
\* after a comment or retry answer, one call per answer, so that a Job has
\* made 1 + (comment and retry answers) calls once it has called; after a
\* rejected call or an answer without image the Job makes no other call.
C18_CallsAreOperatorInitiated ==
  /\ [](pc = "generate" => nCalls = nChoices)
  /\ []((pc # "generate" /\ nCalls > 0) => nCalls = nChoices + 1)
  /\ [](lastOutcome \in {"error", "no_image"} =>
          pc \in {"threw", "returned", "loop", "finally", "exited"})
  /\ [][nCalls' > nCalls =>
          /\ nCalls' = nCalls + 1
          /\ event \in {"read", "comment", "retry"}
          /\ (nCalls > 0) = (event \in {"comment", "retry"})
          /\ lastOutcome \notin {"error", "no_image"}]_vars
  /\ [][nChoices' > nChoices => (pc = "menu" /\ pc' = "generate")]_vars

C18_Witness ==
  /\ event = "edit_error"
  /\ pc = "threw"
  /\ nCalls = 3
  /\ nChoices = 2
  /\ nComments = 1
  /\ lastChoice = "retry"

\* the Job just reported made no comment and no retry: it ended before its
\* first menu or by accept there
Reported == event \in {"report_processed", "report_error"}
AcceptedAtFirstMenu == Reported /\ nChoices = 0 /\ lastChoice \in {"none", "accept"}

\* the output file of the Job's name before the Job
OutputBefore == IF hadOutput THEN StaleOutput ELSE NoFile

\* how the steps of the Job just reported ended
JobOutcomes ==
  [ readOk |-> fault # "read",
    edit |-> IF lastOutcome = "none" THEN "error" ELSE lastOutcome,
    image |-> IF returnedBuffer \in ReturnedImages THEN returnedBuffer
              ELSE OtherImage,
    reencodeOk |-> fault # "reencode",
    writeOk |-> fault # "write",
    exifOk |-> ~exifFailed ]

\* C19: an interactive Job in which the operator accepts at the first menu
\* (or which ends before it) makes the request, and leaves the input file,
\* the output file and the line of main, that the single-shot processOneFile
\* makes and leaves for the same file and the same outcomes of reading, edit
\* call, re-encode, write and EXIF copy.
C19_SingleShotIsAcceptAtFirstMenu ==
  /\ event = "job_start" => outputDir[filename] = OutputBefore
  /\ AcceptedAtFirstMenu =>
       /\ JobOutcomes \in Outcomes
       /\ LET left ==
                SingleShot_processOneFile(filename, InputFile(filename),
                                          OutputBefore, JobOutcomes)
          IN /\ lastRequest = left.request
             /\ InputFile(filename) = left.input
             /\ outputDir[filename] = left.output
             /\ console[Len(console)] = [kind |-> left.report, file |-> filename]

C19_Witness ==
  /\ AcceptedAtFirstMenu
  /\ lastChoice = "accept"
  /\ filename = NAME_B
  /\ lastRequest = Request(PROMPT_TEXT, PngImage \o <<1>>, MIME_JPEG)
  /\ outputDir[NAME_B] = FileOf(SharpJpeg(PngImage), "exifB")
  /\ console[Len(console)] = [kind |-> "Processed", file |-> NAME_B]

\* the type the signature of a buffer tells
Sniffed(buf) ==
  IF StartsWith(buf, PNG_SIGNATURE) THEN MIME_PNG
  ELSE IF StartsWith(buf, JPEG_SIGNATURE) THEN MIME_JPEG
  ELSE MIME_OCTET

\* C20: the MIME type of an edit call is image/jpeg, from the extension of
\* the filename, on the first call of a Job and on a call that follows retry,
\* whatever the bytes of the input are; on a call that follows comment it is
\* the type the signature of the previously returned image tells,
\* application/octet-stream when that is neither PNG nor JPEG.
C20_MimeFollowsLineage ==
  EditCalled =>
    /\ lastChoice \in {"none", "retry", "comment"}
    /\ (lastChoice = "none") = (nCalls = 1)
    /\ lastChoice \in {"none", "retry"} =>
         /\ lastRequest.mimeType = MIME_JPEG
         /\ lastRequest.image = InputFile(filename).bytes
    /\ lastChoice = "comment" =>
         /\ lastRequest.mimeType = Sniffed(prevReturned)
         /\ lastRequest.image = prevReturned

C20_Witness ==
  /\ EditCalled
  /\ filename = NAME_B
  /\ Sniffed(InputFile(NAME_B).bytes) = MIME_PNG
  /\ lastChoice = "comment"
  /\ prevReturned = OtherImage
  /\ lastRequest.mimeType = MIME_OCTET

====
